---- MODULE Spec2Model ----
(***************************************************************************)
(* The request orchestrator of weathertrack (src/app2.py): the two weather *)
(* handlers, POST /get_weather and GET /weather, the 500 error handler and *)
(* the shared photo file images/photo.jpg.  Every external call of a       *)
(* handler is one step; requests are served by the host HTTP server either *)
(* one at a time or one thread per request.                                *)
(*                                                                         *)
(* coordinates.py and weather2.py are not part of the sources at hand;     *)
(* their functions are modelled from their documented contracts as         *)
(* nondeterministic outcome sets.                                          *)
(***************************************************************************)
EXTENDS Naturals, Sequences, FiniteSets

\* Number of requests the host server holds at once (request slots).
NumReq == 2

Req == 1..NumReq

\* Free-text locations a caller may send.
Locations == {"Paris"}

\* The place the callers' network address resolves to.
ClientPlace == "Nairobi"

\* Python's None, and the state of a local that is not bound yet.
None == "None"
Unbound == "unbound"

\* None returned where a (lat, lon) pair is expected: no pair at all.
NoLocation == << >>

\* The error raised by a failing weather or forecast fetch.
UpstreamError == "RequestException"
\* The error raised by unpacking None into two names.
UnpackError == "TypeError: cannot unpack non-iterable NoneType object"

NoLocationProvided == "No location provided."
UnableToRetrieve == "Unable to retrieve location from Google Geolocation API."
PhotoJpg == "images/photo.jpg"

VARIABLES
    threaded,   \* TRUE: the host serves each request on its own thread
    pc,         \* per request: the call the handler is about to make
    frame,      \* per request: the handler's locals
    response,   \* per request: the response returned, <<status, payload>>
    calls,      \* per request: the external calls made so far, in order
    file        \* the content of images/photo.jpg

vars == <<threaded, pc, frame, response, calls, file>>

----------------------------------------------------------------------------
(* External services: outcome sets *)

LatOf(loc) == "lat(" \o loc \o ")"
LonOf(loc) == "lon(" \o loc \o ")"
At(lat, lon) == lat \o "," \o lon

\* resolve(apiKey, locationText?) -> (lat, lon) | null
get_location_from_google(location) ==
    {NoLocation} \cup
    (IF location = None
       THEN {<<LatOf(ClientPlace), LonOf(ClientPlace)>>}
       ELSE {<<LatOf(location), LonOf(location)>>})

\* nameFor(lat, lon) -> string | null
get_location_name(lat, lon) == {None, "name(" \o At(lat, lon) \o ")"}

\* placeIdFor(apiKey, lat, lon) -> string | null
get_place_id_from_coordinates(lat, lon) == {None, "place(" \o At(lat, lon) \o ")"}

\* currentWeather(lat, lon, apiKey) -> WeatherSnapshot, or raises
get_current_weather(lat, lon) == {UpstreamError, "weather(" \o At(lat, lon) \o ")"}

\* forecast(lat, lon, apiKey) -> Forecast, or raises
get_five_day_forecast(lat, lon) == {UpstreamError, "forecast(" \o At(lat, lon) \o ")"}

\* photoReferenceFor(apiKey, placeId) -> string | null; null for a null place
get_photo_reference(place) ==
    IF place = None THEN {None} ELSE {None, "ref(" \o place \o ")"}

\* The image bytes a photo reference names.
PhotoBytes(ref) == "jpeg(" \o ref \o ")"

\* fetchPhoto(photoReference, apiKey) -> filename | null: the outcomes are
\* <<filename, content of images/photo.jpg afterwards>>.
get_photo(ref, old) ==
    IF ref = None THEN {<<None, old>>}
    ELSE {<<None, old>>, <<"photo.jpg", PhotoBytes(ref)>>}

\* latitude, longitude = <result> binds two names only from a pair.
Unpackable(result) == Len(result) = 2

Repr(result) == IF result = NoLocation THEN None ELSE At(result[1], result[2])

----------------------------------------------------------------------------
(* Flask *)

NoResponse == [status |-> 0, body |-> << >>]

jsonify(payload) == [status |-> 200, body |-> payload]

str(e) == "str(" \o e \o ")"

\* Faulty variant: the handler's return leaves the status code out.
internal_server_error_Status200(e) == jsonify([error |-> str(e)])

internal_server_error(e) == [status |-> 500, body |-> [error |-> str(e)]]

NewFrame ==
    [endpoint |-> None, data |-> Unbound, location |-> Unbound,
     latitude |-> Unbound,
     longitude |-> Unbound, location_name |-> Unbound,
     place_id |-> Unbound,
     current_weather |-> Unbound, forecast |-> Unbound,
     photo_reference |-> Unbound, photo_filename |-> Unbound,
     photo_path |-> Unbound, exc |-> None]

Init ==
    /\ threaded \in BOOLEAN
    /\ pc = [r \in Req |-> "idle"]
    /\ frame = [r \in Req |-> NewFrame]
    /\ response = [r \in Req |-> NoResponse]
    /\ calls = [r \in Req |-> << >>]
    /\ file = None

\* A finished request shares nothing with the others: the host sends its
\* response and frees its slot before any handler takes its next step.
Quiet == \A q \in Req : pc[q] # "done"

\* The handler of request r is about to take the step named step.
AtStep(r, step) == Quiet /\ pc[r] = step

\* The host starts a handler when a request arrives, in the first free slot;
\* a server that is not threaded does so only when no other handler is running.
CanStart(r) ==
    /\ AtStep(r, "idle")
    /\ \A q \in Req : q < r => pc[q] # "idle"
    /\ threaded \/ \A q \in Req \ {r} : pc[q] = "idle"

Logged(r, fn, arg, out) ==
    calls' = [calls EXCEPT ![r] = Append(@, [fn |-> fn, arg |-> arg, out |-> out])]

Return(r, resp) ==
    /\ response' = [response EXCEPT ![r] = resp]
    /\ pc' = [pc EXCEPT ![r] = "done"]

\* An error no handler code catches: Flask hands it to the 500 handler, whose
\* return value is the response.
Raise(r, e) ==
    /\ frame' = [frame EXCEPT ![r].exc = e]
    /\ Return(r, internal_server_error(e))

----------------------------------------------------------------------------
(* POST /get_weather *)

\* The JSON bodies a caller sends: no location key, a null location, a text.
Bodies == {<< >>} \cup {[location |-> l] : l \in Locations \cup {None}}

\* data.get('location')
DataGet(data) == IF "location" \in DOMAIN data THEN data.location ELSE None

\* The step that follows step s in a handler's sequence of steps.
After(steps, s) ==
    steps[(CHOOSE i \in 1..(Len(steps) - 1) : steps[i] = s) + 1]

\* Faulty variant: the place id is looked up before the location name.
get_weather_steps_PlaceBeforeName ==
    << "get_location_from_google", "get_place_id_from_coordinates",
       "get_location_name", "get_current_weather",
       "get_five_day_forecast", "get_photo_reference", "get_photo", "return" >>

\* The calls of get_weather in program order.
get_weather_steps ==
    << "get_location_from_google", "get_location_name",
       "get_place_id_from_coordinates", "get_current_weather",
       "get_five_day_forecast", "get_photo_reference", "get_photo", "return" >>

\* Faulty variant: only an empty text counts as a missing location.
LocationMissing_EmptyText(location) == location = ""

\* if location is None
LocationMissing(location) == location = None

\* Faulty variant: the result is unpacked without the check, as in weather.
ResolutionFailed_Unchecked(location_result) == FALSE

\* if location_result is None
ResolutionFailed(location_result) == location_result = NoLocation

\* Faulty variant: the download is called whatever the reference, as in weather.
PhotoWanted_Always(photo_reference) == TRUE

\* if photo_reference is not None
PhotoWanted(photo_reference) == photo_reference # None

\* Faulty variant: the path is reported whatever the download returned.
PhotoPathFor_Always(photo_filename) == PhotoJpg

\* 'images/photo.jpg' if photo_filename is not None else None
PhotoPathFor(photo_filename) == IF photo_filename # None THEN PhotoJpg ELSE None

get_weather_payload(f) ==
    [current_weather |-> f.current_weather, forecast |-> f.forecast,
     photo_path |-> f.photo_path, location |-> f.location_name]

get_weather_begin(r, data) ==
    /\ CanStart(r)
    /\ LET location == DataGet(data) IN
       /\ frame' = [frame EXCEPT ![r].endpoint = "get_weather",
                                 ![r].data = data,
                                 ![r].location = location]
       /\ IF LocationMissing(location)
            THEN Return(r, jsonify([error |-> NoLocationProvided]))
            ELSE /\ pc' = [pc EXCEPT ![r] = get_weather_steps[1]]
                 /\ UNCHANGED response
    /\ UNCHANGED <<threaded, calls, file>>

get_weather_resolve(r) ==
    /\ AtStep(r, "get_location_from_google")
    /\ frame[r].endpoint = "get_weather"
    /\ \E location_result \in get_location_from_google(frame[r].location) :
         /\ Logged(r, "get_location_from_google", frame[r].location,
                   Repr(location_result))
         /\ IF ResolutionFailed(location_result)
              THEN /\ Return(r, jsonify([error |-> UnableToRetrieve]))
                   /\ UNCHANGED frame
              ELSE /\ IF Unpackable(location_result)
                        THEN /\ frame' = [frame EXCEPT
                                            ![r].latitude = location_result[1],
                                            ![r].longitude = location_result[2]]
                             /\ pc' = [pc EXCEPT ![r] =
                                         After(get_weather_steps,
                                               "get_location_from_google")]
                             /\ UNCHANGED response
                        ELSE Raise(r, UnpackError)
    /\ UNCHANGED <<threaded, file>>

get_weather_name(r) ==
    /\ AtStep(r, "get_location_name")
    /\ frame[r].endpoint = "get_weather"
    /\ LET f == frame[r] IN
       \E location_name \in get_location_name(f.latitude, f.longitude) :
         /\ Logged(r, "get_location_name", At(f.latitude, f.longitude), location_name)
         /\ frame' = [frame EXCEPT ![r].location_name = location_name]
    /\ pc' = [pc EXCEPT ![r] = After(get_weather_steps, "get_location_name")]
    /\ UNCHANGED <<threaded, response, file>>

get_weather_place(r) ==
    /\ AtStep(r, "get_place_id_from_coordinates")
    /\ frame[r].endpoint = "get_weather"
    /\ LET f == frame[r] IN
       \E place_id \in get_place_id_from_coordinates(f.latitude, f.longitude) :
         /\ Logged(r, "get_place_id_from_coordinates",
                   At(f.latitude, f.longitude), place_id)
         /\ frame' = [frame EXCEPT ![r].place_id = place_id]
    /\ pc' = [pc EXCEPT ![r] = After(get_weather_steps, "get_place_id_from_coordinates")]
    /\ UNCHANGED <<threaded, response, file>>

get_weather_current(r) ==
    /\ AtStep(r, "get_current_weather")
    /\ frame[r].endpoint = "get_weather"
    /\ LET f == frame[r] IN
       \E current_weather \in get_current_weather(f.latitude, f.longitude) :
         /\ Logged(r, "get_current_weather", At(f.latitude, f.longitude),
                   current_weather)
         /\ IF current_weather = UpstreamError
              THEN Raise(r, UpstreamError)
              ELSE /\ frame' = [frame EXCEPT ![r].current_weather = current_weather]
                   /\ pc' = [pc EXCEPT ![r] =
                               After(get_weather_steps, "get_current_weather")]
                   /\ UNCHANGED response
    /\ UNCHANGED <<threaded, file>>

get_weather_forecast(r) ==
    /\ AtStep(r, "get_five_day_forecast")
    /\ frame[r].endpoint = "get_weather"
    /\ LET f == frame[r] IN
       \E forecast \in get_five_day_forecast(f.latitude, f.longitude) :
         /\ Logged(r, "get_five_day_forecast", At(f.latitude, f.longitude), forecast)
         /\ IF forecast = UpstreamError
              THEN Raise(r, UpstreamError)
              ELSE /\ frame' = [frame EXCEPT ![r].forecast = forecast]
                   /\ pc' = [pc EXCEPT ![r] =
                               After(get_weather_steps, "get_five_day_forecast")]
                   /\ UNCHANGED response
    /\ UNCHANGED <<threaded, file>>

get_weather_photo_reference(r) ==
    /\ AtStep(r, "get_photo_reference")
    /\ frame[r].endpoint = "get_weather"
    /\ \E photo_reference \in get_photo_reference(frame[r].place_id) :
         /\ Logged(r, "get_photo_reference", frame[r].place_id, photo_reference)
         /\ frame' = [frame EXCEPT ![r].photo_reference = photo_reference,
                                   ![r].photo_path = None]
         /\ pc' = [pc EXCEPT ![r] =
                     IF PhotoWanted(photo_reference)
                       THEN After(get_weather_steps, "get_photo_reference")
                       ELSE "return"]
    /\ UNCHANGED <<threaded, response, file>>

get_weather_photo(r) ==
    /\ AtStep(r, "get_photo")
    /\ frame[r].endpoint = "get_weather"
    /\ \E got \in get_photo(frame[r].photo_reference, file) :
         /\ Logged(r, "get_photo", frame[r].photo_reference, got[1])
         /\ file' = got[2]
         /\ frame' = [frame EXCEPT ![r].photo_filename = got[1],
                                   ![r].photo_path = PhotoPathFor(got[1])]
    /\ pc' = [pc EXCEPT ![r] = After(get_weather_steps, "get_photo")]
    /\ UNCHANGED <<threaded, response>>

get_weather_return(r) ==
    /\ AtStep(r, "return")
    /\ frame[r].endpoint = "get_weather"
    /\ Return(r, jsonify(get_weather_payload(frame[r])))
    /\ UNCHANGED <<threaded, frame, calls, file>>

----------------------------------------------------------------------------
(* GET /weather *)

\* Faulty variant: the photo is fetched before the forecast.
weather_steps_PhotoBeforeForecast ==
    << "get_location_from_google", "get_current_weather",
       "get_place_id_from_coordinates", "get_photo_reference", "get_photo",
       "get_five_day_forecast", "get_location_name", "return" >>

\* The calls of weather in program order.
weather_steps ==
    << "get_location_from_google", "get_current_weather",
       "get_five_day_forecast", "get_place_id_from_coordinates",
       "get_photo_reference", "get_photo", "get_location_name", "return" >>

\* if latitude is not None and longitude is not None
HaveCoordinates(latitude, longitude) == latitude # None /\ longitude # None

\* Faulty variant: the payload of get_weather is returned.
weather_payload_Aggregate(f) ==
    [current_weather |-> f.current_weather, forecast |-> f.forecast,
     photo_path |-> f.photo_path, location |-> f.location_name]

weather_payload(f) ==
    [current_weather |-> f.current_weather, forecast |-> f.forecast]

weather_begin(r) ==
    /\ CanStart(r)
    /\ frame' = [frame EXCEPT ![r].endpoint = "weather"]
    /\ pc' = [pc EXCEPT ![r] = weather_steps[1]]
    /\ UNCHANGED <<threaded, response, calls, file>>

weather_resolve(r) ==
    /\ AtStep(r, "get_location_from_google")
    /\ frame[r].endpoint = "weather"
    /\ \E location_result \in get_location_from_google(None) :
         /\ Logged(r, "get_location_from_google", None, Repr(location_result))
         /\ IF ~Unpackable(location_result)
              THEN Raise(r, UnpackError)
              ELSE /\ frame' = [frame EXCEPT
                                  ![r].latitude = location_result[1],
                                  ![r].longitude = location_result[2]]
                   /\ IF HaveCoordinates(location_result[1], location_result[2])
                        THEN /\ pc' = [pc EXCEPT ![r] =
                                    After(weather_steps, "get_location_from_google")]
                             /\ UNCHANGED response
                        ELSE Return(r, jsonify([error |-> UnableToRetrieve]))
    /\ UNCHANGED <<threaded, file>>

weather_current(r) ==
    /\ AtStep(r, "get_current_weather")
    /\ frame[r].endpoint = "weather"
    /\ LET f == frame[r] IN
       \E current_weather \in get_current_weather(f.latitude, f.longitude) :
         /\ Logged(r, "get_current_weather", At(f.latitude, f.longitude),
                   current_weather)
         /\ IF current_weather = UpstreamError
              THEN Raise(r, UpstreamError)
              ELSE /\ frame' = [frame EXCEPT ![r].current_weather = current_weather]
                   /\ pc' = [pc EXCEPT ![r] =
                               After(weather_steps, "get_current_weather")]
                   /\ UNCHANGED response
    /\ UNCHANGED <<threaded, file>>

weather_forecast(r) ==
    /\ AtStep(r, "get_five_day_forecast")
    /\ frame[r].endpoint = "weather"
    /\ LET f == frame[r] IN
       \E forecast \in get_five_day_forecast(f.latitude, f.longitude) :
         /\ Logged(r, "get_five_day_forecast", At(f.latitude, f.longitude), forecast)
         /\ IF forecast = UpstreamError
              THEN Raise(r, UpstreamError)
              ELSE /\ frame' = [frame EXCEPT ![r].forecast = forecast]
                   /\ pc' = [pc EXCEPT ![r] =
                               After(weather_steps, "get_five_day_forecast")]
                   /\ UNCHANGED response
    /\ UNCHANGED <<threaded, file>>

weather_place(r) ==
    /\ AtStep(r, "get_place_id_from_coordinates")
    /\ frame[r].endpoint = "weather"
    /\ LET f == frame[r] IN
       \E place_id \in get_place_id_from_coordinates(f.latitude, f.longitude) :
         /\ Logged(r, "get_place_id_from_coordinates",
                   At(f.latitude, f.longitude), place_id)
         /\ frame' = [frame EXCEPT ![r].place_id = place_id]
    /\ pc' = [pc EXCEPT ![r] = After(weather_steps, "get_place_id_from_coordinates")]
    /\ UNCHANGED <<threaded, response, file>>

weather_photo_reference(r) ==
    /\ AtStep(r, "get_photo_reference")
    /\ frame[r].endpoint = "weather"
    /\ \E photo_reference \in get_photo_reference(frame[r].place_id) :
         /\ Logged(r, "get_photo_reference", frame[r].place_id, photo_reference)
         /\ frame' = [frame EXCEPT ![r].photo_reference = photo_reference]
    /\ pc' = [pc EXCEPT ![r] = After(weather_steps, "get_photo_reference")]
    /\ UNCHANGED <<threaded, response, file>>

weather_photo(r) ==
    /\ AtStep(r, "get_photo")
    /\ frame[r].endpoint = "weather"
    /\ \E got \in get_photo(frame[r].photo_reference, file) :
         /\ Logged(r, "get_photo", frame[r].photo_reference, got[1])
         /\ file' = got[2]
         /\ frame' = [frame EXCEPT ![r].photo_path = got[1]]
    /\ pc' = [pc EXCEPT ![r] = After(weather_steps, "get_photo")]
    /\ UNCHANGED <<threaded, response>>

weather_name(r) ==
    /\ AtStep(r, "get_location_name")
    /\ frame[r].endpoint = "weather"
    /\ LET f == frame[r] IN
       \E location_name \in get_location_name(f.latitude, f.longitude) :
         /\ Logged(r, "get_location_name", At(f.latitude, f.longitude), location_name)
         /\ frame' = [frame EXCEPT ![r].location_name = location_name]
    /\ pc' = [pc EXCEPT ![r] = After(weather_steps, "get_location_name")]
    /\ UNCHANGED <<threaded, response, file>>

weather_return(r) ==
    /\ AtStep(r, "return")
    /\ frame[r].endpoint = "weather"
    /\ Return(r, jsonify(weather_payload(frame[r])))
    /\ UNCHANGED <<threaded, frame, calls, file>>

----------------------------------------------------------------------------
(* The host sends the response and frees the slot *)

Finish(r) ==
    /\ pc[r] = "done"
    /\ pc' = [pc EXCEPT ![r] = "idle"]
    /\ frame' = [frame EXCEPT ![r] = NewFrame]
    /\ response' = [response EXCEPT ![r] = NoResponse]
    /\ calls' = [calls EXCEPT ![r] = << >>]
    /\ UNCHANGED <<threaded, file>>
----------------------------------------------------------------------------

Next ==
    \E r \in Req :
        \/ \E data \in Bodies : get_weather_begin(r, data)
        \/ get_weather_resolve(r)
        \/ get_weather_name(r)
        \/ get_weather_place(r)
        \/ get_weather_current(r)
        \/ get_weather_forecast(r)
        \/ get_weather_photo_reference(r)
        \/ get_weather_photo(r)
        \/ get_weather_return(r)
        \/ weather_begin(r)
        \/ weather_resolve(r)
        \/ weather_current(r)
        \/ weather_forecast(r)
        \/ weather_place(r)
        \/ weather_photo_reference(r)
        \/ weather_photo(r)
        \/ weather_name(r)
        \/ weather_return(r)
        \/ Finish(r)

Spec == Init /\ [][Next]_vars
----------------------------------------------------------------------------
(* Properties *)

IsPost(r) == frame[r].endpoint = "get_weather"
IsGet(r) == frame[r].endpoint = "weather"
Done(r) == pc[r] = "done"

\* The positions of the calls of fn in request r's sequence of calls.
CallsOf(r, fn) == {i \in DOMAIN calls[r] : calls[r][i].fn = fn}
Called(r, fn) == CallsOf(r, fn) # {}
\* Request r called fn and the call gave out.
Gave(r, fn, out) == \E i \in CallsOf(r, fn) : calls[r][i].out = out
\* Request r called fn and it returned a value: neither null nor an error.
Succeeded(r, fn) ==
    \E i \in CallsOf(r, fn) : calls[r][i].out \notin {None, UpstreamError}

Keys(r) == DOMAIN response[r].body
ErrorPayload(r, message) ==
    response[r] = [status |-> 200, body |-> [error |-> message]]
AggregateKeys == {"current_weather", "forecast", "photo_path", "location"}

\* C1: a GET /weather request whose IP-based resolution returns null is
\* answered with exactly the payload {"error": "Unable to retrieve location
\* from Google Geolocation API."}, status 200, and never by the 500 handler.
C1_WeatherResolutionFailureIsErrorPayload ==
    \A r \in Req :
        (IsGet(r) /\ Done(r) /\ Gave(r, "get_location_from_google", None))
            => ErrorPayload(r, UnableToRetrieve)

\* C2: a POST /get_weather request whose body has no location key is answered
\* with exactly {"error": "No location provided."}, status 200, and makes no
\* external call.
C2_NoLocationProvided ==
    \A r \in Req :
        (IsPost(r) /\ "location" \notin DOMAIN frame[r].data)
            => /\ Done(r)
               /\ ErrorPayload(r, NoLocationProvided)
               /\ calls[r] = << >>

C2_Witness ==
    \E r \in Req :
        /\ IsPost(r) /\ Done(r)
        /\ frame[r].data = << >>
        /\ ErrorPayload(r, NoLocationProvided)

\* C3: a POST /get_weather request with a location whose coordinate resolution
\* returns null is answered with the payload {"error": "Unable to retrieve
\* location from Google Geolocation API."}, status 200, and makes no call after
\* the resolution.
C3_ResolutionFailureStopsPost ==
    \A r \in Req :
        (IsPost(r) /\ Gave(r, "get_location_from_google", None))
            => /\ Done(r)
               /\ ErrorPayload(r, UnableToRetrieve)
               /\ Len(calls[r]) = 1

C3_Witness ==
    \E r \in Req :
        /\ IsPost(r) /\ Done(r)
        /\ frame[r].location \in Locations
        /\ Gave(r, "get_location_from_google", None)
        /\ ErrorPayload(r, UnableToRetrieve)

\* The POST request r has returned after its resolution and both weather calls
\* succeeded.
PostSucceeded(r) ==
    /\ IsPost(r) /\ Done(r)
    /\ Succeeded(r, "get_location_from_google")
    /\ Succeeded(r, "get_current_weather")
    /\ Succeeded(r, "get_five_day_forecast")

\* C4 as stated: when resolution and both weather calls succeed on POST
\* /get_weather, the response has the keys current_weather, forecast, location
\* and photo_path, and photo_path is "images/photo.jpg" when a photo reference
\* was found, else null.
C4_PhotoPathWhenReferenceFound ==
    \A r \in Req :
        PostSucceeded(r)
            => /\ Keys(r) = AggregateKeys
               /\ response[r].body.photo_path =
                    IF Succeeded(r, "get_photo_reference") THEN PhotoJpg ELSE None

\* C4 amended: when resolution and both weather calls succeed on POST
\* /get_weather, the response has status 200 and the keys current_weather,
\* forecast, location and photo_path, and photo_path is "images/photo.jpg" when
\* a photo reference was found and its download returned a filename, else null.
C4_PhotoPathWhenPhotoDownloaded ==
    \A r \in Req :
        PostSucceeded(r)
            => /\ response[r].status = 200
               /\ Keys(r) = AggregateKeys
               /\ response[r].body.photo_path =
                    IF /\ Succeeded(r, "get_photo_reference")
                       /\ Succeeded(r, "get_photo")
                      THEN PhotoJpg ELSE None

C4_Witness ==
    \E r \in Req :
        /\ PostSucceeded(r)
        /\ Succeeded(r, "get_photo_reference")
        /\ Succeeded(r, "get_photo")
        /\ response[r].body.photo_path = PhotoJpg

\* C5: on POST /get_weather, once the photo-reference lookup has returned null
\* (also for a null place id) nothing is left but to return: no error is
\* raised, the download is never called, and the response is the aggregate
\* payload with the fetched current_weather, forecast and location and a null
\* photo_path.
C5_PhotoIsBestEffort ==
    \A r \in Req :
        (IsPost(r) /\ Gave(r, "get_photo_reference", None))
            => /\ pc[r] \in {"return", "done"}
               /\ frame[r].exc = None
               /\ ~Called(r, "get_photo")
               /\ Done(r) =>
                    /\ response[r].status = 200
                    /\ Keys(r) = AggregateKeys
                    /\ response[r].body.photo_path = None
                    /\ Gave(r, "get_current_weather", response[r].body.current_weather)
                    /\ Gave(r, "get_five_day_forecast", response[r].body.forecast)
                    /\ Gave(r, "get_location_name", response[r].body.location)

C5_Witness ==
    \E r \in Req :
        /\ IsPost(r) /\ Done(r)
        /\ Gave(r, "get_place_id_from_coordinates", None)
        /\ Gave(r, "get_photo_reference", None)
        /\ response[r].body.photo_path = None

\* C6: a completed GET /weather response is either {"error": string} or has
\* exactly the keys current_weather and forecast, whatever the place-id,
\* photo-reference, photo-download and location-name steps gave; it has the two
\* keys exactly when the request ran to its last line.
C6_WeatherPayloadShape ==
    \A r \in Req :
        (IsGet(r) /\ Done(r))
            => /\ Keys(r) \in {{"error"}, {"current_weather", "forecast"}}
               /\ Called(r, "get_location_name")
                    <=> Keys(r) = {"current_weather", "forecast"}

C6_Witness ==
    \E r \in Req :
        /\ IsGet(r) /\ Done(r)
        /\ Succeeded(r, "get_photo")
        /\ Succeeded(r, "get_location_name")
        /\ Keys(r) = {"current_weather", "forecast"}

\* C7: on both endpoints a raising current-weather or forecast fetch is the
\* request's last call, and the request ends with the 500 handler's response:
\* status 500 and a JSON object whose only key is error, the stringified error.
C7_WeatherFailureIs500 ==
    \A r \in Req :
        (\/ Gave(r, "get_current_weather", UpstreamError)
         \/ Gave(r, "get_five_day_forecast", UpstreamError))
            => /\ Done(r)
               /\ calls[r][Len(calls[r])].out = UpstreamError
               /\ response[r].status = 500
               /\ response[r].body = [error |-> str(UpstreamError)]

C7_Witness ==
    \E r \in Req :
        /\ IsPost(r) /\ Done(r)
        /\ Succeeded(r, "get_current_weather")
        /\ Gave(r, "get_five_day_forecast", UpstreamError)
        /\ response[r].status = 500

\* The POST request r is about to return "images/photo.jpg" as photo_path.
ReturnsPhotoPath(r) ==
    IsPost(r) /\ pc[r] = "return" /\ frame[r].photo_path = PhotoJpg

\* C8: with requests handled one at a time, a POST /get_weather request that
\* returns photo_path "images/photo.jpg" does so while the shared file holds its
\* own photo; with requests handled concurrently the file may hold another
\* request's photo at that moment (C8_Witness).
C8_SerialReturnsOwnPhoto ==
    \A r \in Req :
        (~threaded /\ ReturnsPhotoPath(r))
            => file = PhotoBytes(frame[r].photo_reference)

C8_Witness ==
    \E r, q \in Req :
        /\ threaded /\ r # q
        /\ ReturnsPhotoPath(r)
        /\ Succeeded(q, "get_photo")
        /\ file = PhotoBytes(frame[q].photo_reference)
        /\ file # PhotoBytes(frame[r].photo_reference)

\* The calls of POST /get_weather in the order the claim gives.
PostCallOrder ==
    << "get_location_from_google", "get_location_name",
       "get_place_id_from_coordinates", "get_current_weather",
       "get_five_day_forecast", "get_photo_reference", "get_photo" >>

\* C9: the external calls a POST /get_weather request has made are an initial
\* part of: resolution, location name, place id, current weather, forecast,
\* photo reference, photo download (so each is made at most once and in that
\* order); the place-id call receives the coordinates the resolution returned
\* and the photo-reference call the place id the place-id call returned.
C9_PostCallsInOrder ==
    \A r \in Req :
        IsPost(r)
            => /\ Len(calls[r]) <= Len(PostCallOrder)
               /\ \A i \in DOMAIN calls[r] : calls[r][i].fn = PostCallOrder[i]
               /\ Len(calls[r]) >= 3 => calls[r][3].arg = calls[r][1].out
               /\ Len(calls[r]) >= 6 => calls[r][6].arg = calls[r][3].out

C9_Witness ==
    \E r \in Req :
        /\ IsPost(r) /\ Done(r)
        /\ Len(calls[r]) = Len(PostCallOrder)
        /\ calls[r][6].arg = calls[r][3].out
        /\ calls[r][6].arg # None

\* Request r called the photo download only after its resolution, its
\* current-weather fetch and its forecast fetch had succeeded.
DownloadAfterWeather(r) ==
    \A i \in CallsOf(r, "get_photo") :
        \A fn \in {"get_location_from_google", "get_current_weather",
                   "get_five_day_forecast"} :
            \E j \in CallsOf(r, fn) :
                j < i /\ calls[r][j].out \notin {None, UpstreamError}

\* C10: on both endpoints the photo download is called only after the request's
\* resolution, current-weather and forecast calls have succeeded; a request
\* answered with an error payload or by the 500 handler has not called it; and
\* the shared file changes only in a step in which a request calls it.
C10_FileWrittenOnlyAfterWeather ==
    /\ [](\A r \in Req :
            /\ DownloadAfterWeather(r)
            /\ (Done(r) /\ "error" \in Keys(r)) => ~Called(r, "get_photo"))
    /\ [][file' # file =>
            \E r \in Req :
                /\ pc[r] = "get_photo"
                /\ calls'[r] = Append(calls[r],
                                 [fn |-> "get_photo",
                                  arg |-> frame[r].photo_reference,
                                  out |-> "photo.jpg"])
                /\ DownloadAfterWeather(r)']_vars

C10_Witness ==
    \E r \in Req :
        /\ Done(r) /\ "error" \in Keys(r)
        /\ Gave(r, "get_five_day_forecast", UpstreamError)
        /\ file # None

====
